---- MODULE Spec2Model ----
(***************************************************************************)
(* Model of session_2/challenge/scripts/leaderboard.py: the leaderboard    *)
(* table kept between two markers of leaderboard.md, and the update        *)
(* generate_leaderboard / update_leaderboard performs on it.               *)
(*                                                                         *)
(* The file content is a sequence of tokens.  A token <<kind, n>> stands   *)
(* for a piece of text: a pipe, a newline, a space, the text of one of the *)
(* two marker comments, or the text of one cell value.  Scores are counted *)
(* in units of a third of the last digit the markdown writer keeps.        *)
(***************************************************************************)
EXTENDS Integers, Sequences, FiniteSets, TLC

\* ------------------------------------------------------------------ bounds
\* The user names other than the empty one, and the invocations of one run.
NumUsers == 2
MaxUpdates == 2

\* github_user values: 0 is the empty string, 1..NumUsers are user names in
\* lexicographic order.
Users == 0..NumUsers
\* prompt_name values: two solution names.
Prompts == {1, 2}
\* Accuracies evaluate can return, in score units: 3 and 6 are values the
\* markdown writer can write exactly (6 is the whole number 1), 2 and 4 are
\* written as 3.
Accs == {2, 3, 4, 6}

\* ------------------------------------------------------ text and tokens
\* to_markdown writes a float with format(x, "g"): six significant digits.
\* Quantum is the distance, in score units, between two values it can write.
Quantum == 3
\* Score units in 1.0: a score that is a whole number is written without a
\* decimal point ("85"), which int() accepts too.
Scale == 6

PIPE == <<"pipe", 0>>
NL == <<"nl", 0>>
SP == <<"sp", 0>>
BEGIN == <<"begin", 0>>
END == <<"end", 0>>
IntTok(n) == <<"int", n>>
FltTok(s) == <<"flt", s>>
ImgTok(u) == <<"img", u>>
UserTok(u) == <<"user", u>>
SolTok(p) == <<"sol", p>>
HdrTok(i) == <<"hdr", i>>
SepTok(i) == <<"sep", i>>
TxtTok(i) == <<"txt", i>>

start_marker == <<BEGIN, NL>>
end_marker == <<NL, END>>

\* str.find: the 0-based index of the first occurrence of sub in s, or -1.
find(s, sub) ==
  LET hits == {i \in 0..(Len(s) - Len(sub)) : SubSeq(s, i + 1, i + Len(sub)) = sub}
  IN IF hits = {} THEN -1 ELSE CHOOSE i \in hits : \A j \in hits : i <= j

\* A slice bound as Python normalises it: a negative bound counts from the end,
\* and the result is clamped to 0..n.
SliceIndex(i, n) ==
  IF i < 0 THEN (IF i + n < 0 THEN 0 ELSE i + n) ELSE (IF i > n THEN n ELSE i)

\* s[lo:hi]
PySlice(s, lo, hi) ==
  SubSeq(s, SliceIndex(lo, Len(s)) + 1, SliceIndex(hi, Len(s)))

\* ------------------------------------------------------- row extraction
\* The 1-based index of the first pipe of s at or after i, or 0.
RECURSIVE NextPipe(_, _)
NextPipe(s, i) ==
  IF i > Len(s) THEN 0 ELSE IF s[i] = PIPE THEN i ELSE NextPipe(s, i + 1)

\* k times ([^|]+)\| from the pipe at index i: each field is the run of
\* tokens up to the next pipe (a newline is not a pipe) and must not be empty.
RECURSIVE MatchFields(_, _, _)
MatchFields(s, i, k) ==
  IF k = 0 THEN [ok |-> TRUE, fields |-> <<>>, end |-> i]
  ELSE LET p == NextPipe(s, i + 1)
       IN IF p = 0 \/ p = i + 1
          THEN [ok |-> FALSE, fields |-> <<>>, end |-> i]
          ELSE LET r == MatchFields(s, p, k - 1)
               IN [ok |-> r.ok,
                   fields |-> <<SubSeq(s, i + 1, p - 1)>> \o r.fields,
                   end |-> r.end]

\* re.findall from index i: the matches left to right, none overlapping; the
\* scan resumes after a match's closing pipe.
RECURSIVE FindAllFrom(_, _)
FindAllFrom(s, i) ==
  LET o == NextPipe(s, i)
  IN IF o = 0 THEN <<>>
     ELSE LET m == MatchFields(s, o, 5)
          IN IF m.ok THEN <<m.fields>> \o FindAllFrom(s, m.end + 1)
             ELSE FindAllFrom(s, o + 1)

FindAll(s) == FindAllFrom(s, 1)

IsSpace(t) == t = SP \/ t = NL

\* str.strip
RECURSIVE LStrip(_)
LStrip(c) == IF c # <<>> /\ IsSpace(Head(c)) THEN LStrip(Tail(c)) ELSE c
RECURSIVE RStrip(_)
RStrip(c) ==
  IF c # <<>> /\ IsSpace(c[Len(c)]) THEN RStrip(SubSeq(c, 1, Len(c) - 1)) ELSE c
strip(c) == RStrip(LStrip(c))

\* findall(...)[2:], each cell stripped
ExtractRows(table_content) ==
  LET all == FindAll(table_content)
      kept == SubSeq(all, 3, Len(all))
  IN [i \in 1..Len(kept) |-> [j \in 1..5 |-> strip(kept[i][j])]]

\* astype(int) and astype(float) on a cell
IsInt(c) == Len(c) = 1 /\ c[1][1] = "int"
IsFloat(c) == Len(c) = 1 /\ c[1][1] \in {"int", "flt"}
ToInt(c) == c[1][2]
ToFloat(c) == IF c[1][1] = "int" THEN c[1][2] * Scale ELSE c[1][2]

RowsParse(rows) == \A i \in 1..Len(rows) : IsInt(rows[i][1]) /\ IsFloat(rows[i][5])

ToFrame(rows) ==
  [i \in 1..Len(rows) |->
     [Rank |-> ToInt(rows[i][1]), Img |-> rows[i][2], User |-> rows[i][3],
      Sol |-> rows[i][4], Acc |-> ToFloat(rows[i][5])]]

\* ----------------------------------------------------------------- merge
\* Lines 66-73: the row of the submission; its Rank is provisional.
new_entry(df, prompt_name, accuracy, github_user) ==
  [Rank |-> Len(df) + 1, Img |-> <<ImgTok(github_user)>>,
   User |-> <<UserTok(github_user)>>, Sol |-> <<SolTok(prompt_name)>>,
   Acc |-> accuracy]

\* pd.concat([df, new], ignore_index=True)
concat(df, entry) == Append(df, entry)

\* The order of cell texts as strings: by first character, the kinds of text
\* come in this order; within a kind, by number.
KindOrder(k) ==
  CASE k = "nl" -> 0 [] k = "sp" -> 1 [] k = "sep" -> 2 [] k = "int" -> 3
    [] k = "flt" -> 4 [] k = "img" -> 5 [] k = "begin" -> 6 [] k = "end" -> 7
    [] k = "hdr" -> 8 [] k = "user" -> 9 [] k = "sol" -> 10 [] k = "txt" -> 11
    [] OTHER -> 12
TokLess(a, b) ==
  \/ KindOrder(a[1]) < KindOrder(b[1])
  \/ KindOrder(a[1]) = KindOrder(b[1]) /\ a[2] < b[2]
RECURSIVE CellLess(_, _)
CellLess(a, b) ==
  IF b = <<>> THEN FALSE
  ELSE IF a = <<>> THEN TRUE
  ELSE IF Head(a) = Head(b) THEN CellLess(Tail(a), Tail(b))
  ELSE TokLess(Head(a), Head(b))

\* groupby("GitHub Username") puts the group keys in sorted order.
RECURSIVE SortKeys(_)
SortKeys(keys) ==
  IF keys = {} THEN <<>>
  ELSE LET m == CHOOSE k \in keys : \A o \in keys \ {k} : CellLess(k, o)
       IN <<m>> \o SortKeys(keys \ {m})

\* The keys of the groups of df, sorted.
GroupKeys(df) == SortKeys({df[i].User : i \in 1..Len(df)})

MaxOf(S) == CHOOSE x \in S : \A y \in S : y <= x
MinOf(S) == CHOOSE x \in S : \A y \in S : x <= y

\* A variant of idxmax: the label of the last row holding the group's maximum.
idxmax_last(df, key) ==
  LET grp == {i \in 1..Len(df) : df[i].User = key}
      best == MaxOf({df[i].Acc : i \in grp})
  IN MaxOf({i \in grp : df[i].Acc = best})
\* A variant of idxmax: idxmin, the label of the first row holding the group's
\* minimum.
idxmin_first(df, key) ==
  LET grp == {i \in 1..Len(df) : df[i].User = key}
      worst == MinOf({df[i].Acc : i \in grp})
  IN MinOf({i \in grp : df[i].Acc = worst})
\* Line 78, Series.idxmax within the group of one key: the label of the FIRST
\* row holding the group's maximum.
idxmax(df, key) ==
  LET grp == {i \in 1..Len(df) : df[i].User = key}
      best == MaxOf({df[i].Acc : i \in grp})
  IN MinOf({i \in grp : df[i].Acc = best})

\* Line 78: one label per user, in key order.
highest_indices(df) ==
  LET keys == GroupKeys(df)
  IN [k \in 1..Len(keys) |-> idxmax(df, keys[k])]

\* Lines 82-83, sort_values(by="Accuracy %", ascending=False): the default
\* kind is quicksort, which is not stable, so rows of equal score may come out
\* in any order.  The orders of the labels in S that are non-increasing in score.
RECURSIVE SortOrders(_, _)
SortOrders(df, S) ==
  IF S = {} THEN {<<>>}
  ELSE LET best == MaxOf({df[i].Acc : i \in S})
       IN UNION {{<<i>> \o r : r \in SortOrders(df, S \ {i})} :
                 i \in {j \in S : df[j].Acc = best}}

\* The orders sort_values can give the rows with these labels.
sort_values(df, labels) == SortOrders(df, {labels[k] : k \in 1..Len(labels)})

\* A variant of AssignRanks: line 87 left out, each row keeps the rank it had.
KeepRanks(df, order) == [k \in 1..Len(order) |-> df[order[k]]]
\* Lines 84-87: reset_index(drop=True) and Rank = index + 1.
AssignRanks(df, order) ==
  [k \in 1..Len(order) |-> [df[order[k]] EXCEPT !.Rank = k]]

\* ---------------------------------------------------------------- render
\* format(x, "g"): the nearest value with six significant digits.
FmtG(s) == Quantum * ((s + (Quantum \div 2)) \div Quantum)

\* The text of a score: without a decimal point when it is a whole number.
RenderFloat(s) ==
  LET g == FmtG(s)
  IN IF g % Scale = 0 THEN IntTok(g \div Scale) ELSE FltTok(g)

RECURSIVE Flatten(_)
Flatten(ss) == IF ss = <<>> THEN <<>> ELSE Head(ss) \o Flatten(Tail(ss))

\* One line of the pipe table: "| c1 | c2 | c3 | c4 | c5 |".
Line(cells) ==
  <<PIPE>> \o Flatten([j \in 1..Len(cells) |-> <<SP>> \o cells[j] \o <<SP, PIPE>>])

HeaderLine == Line([j \in 1..5 |-> <<HdrTok(j)>>])
SeparatorLine == <<PIPE>> \o Flatten([j \in 1..5 |-> <<SepTok(j), PIPE>>])

RowLine(r) ==
  Line(<<<<IntTok(r.Rank)>>, r.Img, r.User, r.Sol, <<RenderFloat(r.Acc)>>>>)

\* Line 90, df_sorted.to_markdown(index=False): the header line, the
\* separator line and one line per row, joined by newlines.
to_markdown(t) ==
  HeaderLine \o <<NL>> \o SeparatorLine
    \o Flatten([k \in 1..Len(t) |-> <<NL>> \o RowLine(t[k])])

\* A variant of new_content: content[end_index:] left out.
new_content_no_suffix(content, start_index, end_index, markdown_table) ==
  PySlice(content, 0, start_index + Len(start_marker)) \o markdown_table
\* Lines 93-97: the text up to the end of the begin marker, the table, the
\* text from the end marker on.
new_content(content, start_index, end_index, markdown_table) ==
  PySlice(content, 0, start_index + Len(start_marker))
    \o markdown_table
    \o PySlice(content, end_index, Len(content))

\* Lines 35-38: content[start_index:end_index].
TableContent(content) ==
  PySlice(content, find(content, start_marker), find(content, end_marker))

\* --------------------------------------------------- generate_leaderboard
\* What one run of generate_leaderboard on the file content does: either an
\* exception before the file is opened for writing, or the new file content.
\* df is the frame after line 75, order the labels of df_sorted before
\* reset_index, df_sorted the frame after line 87.
Failure(content, how) ==
  [outcome |-> how, doc |-> content, df |-> <<>>, order |-> <<>>, df_sorted |-> <<>>]

\* A variant of generate_leaderboard: the file is opened for writing before
\* the table is parsed, so an exception leaves it empty.
generate_leaderboard_truncating(content, prompt_name, accuracy, github_user) ==
  LET rows == ExtractRows(TableContent(content))
  IN IF ~RowsParse(rows) THEN {Failure(<<>>, "ValueError")}
     ELSE LET df == concat(ToFrame(rows),
                           new_entry(ToFrame(rows), prompt_name, accuracy, github_user))
          IN {[outcome |-> "ok",
               doc |-> new_content(content, find(content, start_marker),
                                  find(content, end_marker),
                                  to_markdown(AssignRanks(df, order))),
               df |-> df, order |-> order, df_sorted |-> AssignRanks(df, order)] :
              order \in sort_values(df, highest_indices(df))}

\* Lines 29-101.
generate_leaderboard(content, prompt_name, accuracy, github_user) ==
  LET start_index == find(content, start_marker)
      end_index == find(content, end_marker)
      rows == ExtractRows(PySlice(content, start_index, end_index))
  IN IF ~RowsParse(rows) THEN {Failure(content, "ValueError")}
     ELSE LET df0 == ToFrame(rows)
              df == concat(df0, new_entry(df0, prompt_name, accuracy, github_user))
          IN {[outcome |-> "ok",
               doc |-> new_content(content, start_index, end_index,
                                  to_markdown(AssignRanks(df, order))),
               df |-> df, order |-> order, df_sorted |-> AssignRanks(df, order)] :
              order \in sort_values(df, highest_indices(df))}

\* ------------------------------------------------------- file contents
JoinLines(lines) ==
  IF lines = <<>> THEN <<>>
  ELSE Head(lines) \o Flatten([k \in 1..(Len(lines) - 1) |-> <<NL>> \o lines[k + 1]])

\* A hand-written table row: the score cell holds the token score.
HandRow(rank, u, p, score) ==
  Line(<<<<IntTok(rank)>>, <<ImgTok(u)>>, <<UserTok(u)>>, <<SolTok(p)>>, <<score>>>>)

Prefix == <<TxtTok(1), NL>>
Suffix == <<NL, TxtTok(2), NL>>

Framed(lines) == Prefix \o start_marker \o JoinLines(lines) \o end_marker \o Suffix

\* Only the header: no submission yet.
DocEmpty == Framed(<<HeaderLine, SeparatorLine>>)
\* Hand-kept history: stored ranks that are not 1..N, two rows of one user, a
\* blank line and a line of plain text among the rows.
DocHistory ==
  Framed(<<HeaderLine, SeparatorLine, HandRow(7, NumUsers, 1, FltTok(Quantum)), <<>>,
           <<TxtTok(3)>>, HandRow(7, NumUsers, 2, IntTok(1))>>)
\* An empty table region: the newline ending the begin marker is the one
\* starting the end marker.
DocNoRegion == Prefix \o <<BEGIN, NL, END>> \o Suffix
\* A row whose score is not a number.
DocBadScore ==
  Framed(<<HeaderLine, SeparatorLine, HandRow(1, 1, 1, TxtTok(4))>>)
\* A row whose rank is not an integer.
DocBadRank ==
  Framed(<<HeaderLine, SeparatorLine, HandRow(1, 1, 1, IntTok(1)),
           Line(<<<<FltTok(4)>>, <<ImgTok(1)>>, <<UserTok(1)>>, <<SolTok(2)>>,
                  <<IntTok(1)>>>>)>>)
\* The begin marker is missing.
DocNoBegin ==
  Prefix \o JoinLines(<<HeaderLine, SeparatorLine, HandRow(1, 1, 1, IntTok(1))>>)
    \o end_marker \o Suffix
\* The end marker is missing.
DocNoEnd ==
  Prefix \o start_marker
    \o JoinLines(<<HeaderLine, SeparatorLine, HandRow(1, 1, 1, IntTok(1))>>) \o Suffix
\* The end marker comes first.
DocEndFirst ==
  Prefix \o end_marker \o <<NL>> \o start_marker
    \o JoinLines(<<HeaderLine, SeparatorLine, HandRow(1, 1, 1, IntTok(1))>>) \o Suffix
\* A line of three fields before the only row.
DocShortLine ==
  Framed(<<HeaderLine, SeparatorLine,
           Line(<<<<IntTok(7)>>, <<TxtTok(5)>>, <<TxtTok(6)>>>>),
           HandRow(1, 1, 1, IntTok(1))>>)

\* Files whose markers are in place and whose table lines are rows.
InitDocs == {DocEmpty, DocHistory, DocNoRegion, DocBadScore, DocBadRank}
\* Files with a marker missing or misplaced, or a line that is not a row.
OddDocs == {DocNoBegin, DocNoEnd, DocEndFirst, DocShortLine}

\* ---------------------------------------------------------------- state
VARIABLES
  doc,      \* the content of leaderboard.md
  last,     \* the last invocation of update_leaderboard: its inputs, the
            \* content it read and what it did
  n,        \* invocations so far
  pc,       \* per concurrent invocation: where it is
  job,      \* per concurrent invocation: its inputs and the content it read
  log       \* the reads and writes of the concurrent invocations, in order

vars == <<doc, last, n, pc, job, log>>

NoCall ==
  [outcome |-> "none", content |-> <<>>, user |-> 0, prompt |-> 0, acc |-> 0,
   df |-> <<>>, order |-> <<>>, df_sorted |-> <<>>]

Procs == {1, 2}
Idle == [p \in Procs |-> "idle"]
NoJob == [p \in Procs |-> [user |-> 0, prompt |-> 0, acc |-> 0, content |-> <<>>,
                           outcome |-> "none"]]

Init ==
  /\ doc \in InitDocs
  /\ last = NoCall
  /\ n = 0
  /\ pc = Idle
  /\ job = NoJob
  /\ log = <<>>

\* update_leaderboard, evaluate_lib.evaluate raises: generate_leaderboard is
\* never called.
ScoringFails(u, p) ==
  /\ n < MaxUpdates
  /\ last' = [NoCall EXCEPT !.outcome = "ScoringError", !.content = doc,
                            !.user = u, !.prompt = p]
  /\ n' = n + 1
  /\ UNCHANGED <<doc, pc, job, log>>

\* update_leaderboard, evaluate returns acc: generate_leaderboard runs to its
\* end or to its exception.
update_leaderboard(u, p, acc) ==
  /\ n < MaxUpdates
  /\ \E r \in generate_leaderboard(doc, p, acc, u) :
       /\ doc' = r.doc
       /\ last' = [outcome |-> r.outcome, content |-> doc, user |-> u, prompt |-> p,
                   acc |-> acc, df |-> r.df, order |-> r.order,
                   df_sorted |-> r.df_sorted]
  /\ n' = n + 1
  /\ UNCHANGED <<pc, job, log>>

Next ==
  \/ \E u \in Users, p \in Prompts : ScoringFails(u, p)
  \/ \E u \in Users, p \in Prompts, acc \in Accs : update_leaderboard(u, p, acc)

Spec == Init /\ [][Next]_vars

\* The same invocations on any file, well kept or not.
InitAnyDoc ==
  /\ doc \in InitDocs \cup OddDocs
  /\ last = NoCall
  /\ n = 0
  /\ pc = Idle
  /\ job = NoJob
  /\ log = <<>>

SpecAnyDoc == InitAnyDoc /\ [][Next]_vars

\* ------------------------------------------- two concurrent invocations
\* Lines 112-115 and 32-33: the score is known, the file is read.
Read(p, u, prompt, acc) ==
  /\ pc[p] = "idle"
  /\ job' = [job EXCEPT ![p] = [user |-> u, prompt |-> prompt, acc |-> acc,
                                content |-> doc, outcome |-> "none"]]
  /\ pc' = [pc EXCEPT ![p] = "read"]
  /\ log' = Append(log, <<"read", p>>)
  /\ UNCHANGED <<doc, last, n>>

\* A variant of Write: the table is rebuilt from the file as it is at the
\* time of writing.
WriteRereading(p) ==
  /\ pc[p] = "read"
  /\ \E r \in generate_leaderboard(doc, job[p].prompt, job[p].acc, job[p].user) :
       /\ doc' = IF r.outcome = "ok" THEN r.doc ELSE doc
       /\ job' = [job EXCEPT ![p].outcome = r.outcome]
  /\ pc' = [pc EXCEPT ![p] = "done"]
  /\ log' = Append(log, <<"write", p>>)
  /\ UNCHANGED <<last, n>>
\* Lines 35-101: the table is rebuilt from the content read, and written.
Write(p) ==
  /\ pc[p] = "read"
  /\ \E r \in generate_leaderboard(job[p].content, job[p].prompt, job[p].acc,
                                  job[p].user) :
       /\ doc' = IF r.outcome = "ok" THEN r.doc ELSE doc
       /\ job' = [job EXCEPT ![p].outcome = r.outcome]
  /\ pc' = [pc EXCEPT ![p] = "done"]
  /\ log' = Append(log, <<"write", p>>)
  /\ UNCHANGED <<last, n>>

InitConc ==
  /\ doc \in {DocEmpty, DocHistory}
  /\ last = NoCall
  /\ n = 0
  /\ pc = Idle
  /\ job = NoJob
  /\ log = <<>>

NextConc ==
  \/ \E p \in Procs, u \in Users, prompt \in Prompts, acc \in Accs : Read(p, u, prompt, acc)
  \/ \E p \in Procs : Write(p)

SpecConc == InitConc /\ [][NextConc]_vars

\* ================================================================ claims
\* What generate_leaderboard would read back from a file content.
ReadTable(content) == ToFrame(ExtractRows(TableContent(content)))

\* Both markers are in the content, the end marker's text after the begin
\* marker's.
MarkersInPlace(content) ==
  /\ find(content, start_marker) >= 0
  /\ find(content, end_marker) >= 0
  /\ find(content, end_marker) + 1 > find(content, start_marker)

Succeeded == last.outcome = "ok"
\* The labels of the input records (existing rows, then the submission).
Input == 1..Len(last.df)
GroupOf(k) == {i \in Input : last.df[i].User = last.df[k].User}
GroupBest(k) == MaxOf({last.df[i].Acc : i \in GroupOf(k)})
SubmittedUser == <<UserTok(last.user)>>
SubmittedSol == <<SolTok(last.prompt)>>

\* C1: after a successful update the merged table holds exactly one row per
\* participant identifier of the input (existing rows and the submission), that
\* row is one of the participant's input records and its score is the maximum
\* of the participant's input scores (a submission above every existing score
\* of the participant is the row kept, one below an existing score is not),
\* and the table written to a file whose markers are in place reads back as
\* these rows, one per participant (each score as the markdown writer renders
\* it).
C1_OneRowPerParticipantWithBestScore ==
  Succeeded =>
    LET t == last.df_sorted
    IN /\ \A i, j \in 1..Len(t) : t[i].User = t[j].User => i = j
       /\ {t[i].User : i \in 1..Len(t)} = {last.df[k].User : k \in Input}
       /\ \A i \in 1..Len(t) :
            /\ t[i].Acc = MaxOf({last.df[k].Acc : k \in {x \in Input : last.df[x].User = t[i].User}})
            /\ \E k \in Input : t[i] = [last.df[k] EXCEPT !.Rank = i]
       /\ \A i \in 1..Len(t) :
            t[i].User = SubmittedUser =>
              /\ (\A k \in GroupOf(Len(last.df)) \ {Len(last.df)} : last.df[k].Acc < last.acc)
                   => (t[i].Sol = SubmittedSol /\ t[i].Acc = last.acc)
              /\ (\E k \in GroupOf(Len(last.df)) \ {Len(last.df)} : last.df[k].Acc > last.acc)
                   => \E k \in Input \ {Len(last.df)} : t[i] = [last.df[k] EXCEPT !.Rank = i]
       /\ MarkersInPlace(last.content) =>
            LET w == ReadTable(doc)
            IN /\ Len(w) = Len(t)
               /\ \A i \in 1..Len(t) : w[i].User = t[i].User /\ w[i].Acc = FmtG(t[i].Acc)
               /\ \A i, j \in 1..Len(w) : w[i].User = w[j].User => i = j

\* A second successful update in which the participant already had a row with a
\* higher score than the one submitted, and the row they keep shows it.
C1_Witness ==
  /\ Succeeded
  /\ n = MaxUpdates
  /\ \E k \in Input \ {Len(last.df)} :
       /\ last.df[k].User = SubmittedUser
       /\ last.df[k].Acc > last.acc
  /\ \E i \in 1..Len(last.df_sorted) :
       /\ last.df_sorted[i].User = SubmittedUser
       /\ last.df_sorted[i].Acc > last.acc

\* The merge on the same records with every stored and provisional rank
\* replaced by r.
Reranked(r) == [k \in Input |-> [last.df[k] EXCEPT !.Rank = r]]
MergeOf(df) == {AssignRanks(df, o) : o \in sort_values(df, highest_indices(df))}

\* C2: after a successful update the ranks are 1..N in row order, the rows are
\* in non-increasing score order (in the merged table and in the written one),
\* and the merge of the same records under other stored and provisional ranks
\* gives the same tables.
C2_DenseRanksInScoreOrder ==
  Succeeded =>
    LET t == last.df_sorted
    IN /\ \A i \in 1..Len(t) : t[i].Rank = i
       /\ \A i \in 1..(Len(t) - 1) : t[i].Acc >= t[i + 1].Acc
       /\ t \in MergeOf(Reranked(0))
       /\ MergeOf(Reranked(0)) = MergeOf(last.df)
       /\ MarkersInPlace(last.content) =>
            LET w == ReadTable(doc)
            IN /\ \A i \in 1..Len(w) : w[i].Rank = i
               /\ \A i \in 1..(Len(w) - 1) : w[i].Acc >= w[i + 1].Acc

\* A successful update of a table whose stored ranks were not 1..N and whose
\* result holds two rows of equal score.
C2_Witness ==
  /\ Succeeded
  /\ \E k \in Input \ {Len(last.df)} : last.df[k].Rank > Len(last.df)
  /\ \E i \in 1..(Len(last.df_sorted) - 1) :
       last.df_sorted[i].Acc = last.df_sorted[i + 1].Acc

\* C3 as stated: of the records of one participant that hold the participant's
\* maximum score, the merge retains the one latest in the input sequence; a
\* resubmission equal to the existing best puts the new solution link in the row.
C3_LatestOfEqualBestRetained ==
  Succeeded =>
    /\ \A i \in 1..Len(last.order) :
         last.order[i] =
           MaxOf({k \in GroupOf(last.order[i]) : last.df[k].Acc = GroupBest(last.order[i])})
    /\ (\E k \in Input \ {Len(last.df)} :
          last.df[k].User = SubmittedUser /\ GroupBest(k) = last.acc)
         => \E i \in 1..Len(last.df_sorted) :
              /\ last.df_sorted[i].User = SubmittedUser
              /\ last.df_sorted[i].Sol = SubmittedSol

\* C3 amended: of the records of one participant that hold the participant's
\* maximum score, the merge retains the one EARLIEST in the input sequence; a
\* resubmission equal to the existing best leaves the existing row's solution
\* link in the row, in the merged table and in the written one.
C3_EarliestOfEqualBestRetained ==
  Succeeded =>
    /\ \A i \in 1..Len(last.order) :
         last.order[i] =
           MinOf({k \in GroupOf(last.order[i]) : last.df[k].Acc = GroupBest(last.order[i])})
    /\ \A k \in Input \ {Len(last.df)} :
         (/\ last.df[k].User = SubmittedUser
          /\ GroupBest(k) = last.acc
          /\ last.df[k].Acc = last.acc
          /\ \A j \in 1..(k - 1) : ~(last.df[j].User = SubmittedUser /\ last.df[j].Acc = last.acc))
         => /\ \E i \in 1..Len(last.df_sorted) :
                 /\ last.df_sorted[i].User = SubmittedUser
                 /\ last.df_sorted[i].Sol = last.df[k].Sol
            /\ MarkersInPlace(last.content) =>
                 \E i \in 1..Len(ReadTable(doc)) :
                   /\ ReadTable(doc)[i].User = SubmittedUser
                   /\ ReadTable(doc)[i].Sol = last.df[k].Sol

\* A successful resubmission with exactly the participant's existing best
\* score and another solution name.
C3_Witness ==
  /\ Succeeded
  /\ \E k \in Input \ {Len(last.df)} :
       /\ last.df[k].User = SubmittedUser
       /\ GroupBest(k) = last.acc
       /\ last.df[k].Acc = last.acc
       /\ last.df[k].Sol # SubmittedSol

\* C4 as stated (for a submission with a non-empty identifier): in the merged
\* table, records of equal score are in the order they had in the input
\* sequence (existing rows in table order, the submission last).
C4_EqualScoresKeepInputOrder ==
  (Succeeded /\ last.user # 0) =>
    \A i, j \in 1..Len(last.order) :
      (i < j /\ last.df[last.order[i]].Acc = last.df[last.order[j]].Acc)
        => last.order[i] < last.order[j]

\* C5: when both markers are in place, a successful update leaves the text
\* up to and including the begin marker and the text from the end marker to
\* the end of the file as they were, the markers of the new content are these
\* same ones, and so the next update finds them in place again.
C5_PrefixAndSuffixKept ==
  (Succeeded /\ MarkersInPlace(last.content)) =>
    LET c == last.content
        b == find(c, start_marker)
        e == find(c, end_marker)
        tail == Len(c) - (e + 1)
    IN /\ Len(doc) >= (b + 1) + tail
       /\ SubSeq(doc, 1, b + 1) = SubSeq(c, 1, b + 1)
       /\ SubSeq(doc, Len(doc) - tail + 1, Len(doc)) = SubSeq(c, e + 2, Len(c))
       /\ find(doc, start_marker) = b
       /\ find(doc, end_marker) + 1 = Len(doc) - tail
       /\ MarkersInPlace(doc)

\* A second successful update of a file whose markers are in place, which
\* changed the table region.
C5_Witness ==
  /\ Succeeded
  /\ n = MaxUpdates
  /\ MarkersInPlace(last.content)
  /\ doc # last.content

\* C6 as stated (for a submission with a non-empty identifier): when a marker
\* is missing, or the end marker is not after the begin marker,
\* generate_leaderboard fails and the file is left as it was.
C6_MisplacedMarkerFailsWithoutWrite ==
  (last.outcome \in {"ok", "ValueError"} /\ last.user # 0
     /\ ~MarkersInPlace(last.content)) =>
    (last.outcome # "ok" /\ doc = last.content)

\* C7: the file is overwritten only by an update that succeeded; when scoring
\* fails, or the rank or score cell of an existing row is not a number, the
\* invocation ends in an error and the file content is what it was.
C7_ErrorsLeaveFileUntouched ==
  /\ (last.outcome # "none" /\ doc # last.content) => Succeeded
  /\ last.outcome = "ScoringError" => doc = last.content
  /\ (last.outcome \in {"ok", "ValueError"}
        /\ ~RowsParse(ExtractRows(TableContent(last.content))))
       => (last.outcome = "ValueError" /\ doc = last.content)

\* A second invocation that met a row whose score is not a number, after one
\* whose scoring failed.
C7_Witness ==
  /\ last.outcome = "ValueError"
  /\ n = MaxUpdates
  /\ \E i \in 1..Len(ExtractRows(TableContent(last.content))) :
       ~IsFloat(ExtractRows(TableContent(last.content))[i][5])

\* C8 as stated: a submission whose participant identifier is empty is
\* rejected: the invocation ends in an error and the file is not written.
C8_EmptyParticipantRejected ==
  (last.outcome \in {"ok", "ValueError"} /\ last.user = 0) =>
    (last.outcome # "ok" /\ doc = last.content)

\* The lines of a text: the runs of tokens between newlines.
RECURSIVE SplitLines(_)
SplitLines(s) ==
  LET nls == {i \in 1..Len(s) : s[i] = NL}
  IN IF nls = {} THEN <<s>>
     ELSE <<SubSeq(s, 1, MinOf(nls) - 1)>> \o SplitLines(SubSeq(s, MinOf(nls) + 1, Len(s)))

\* A line that is one row: a pipe, five non-empty fields each closed by a
\* pipe, and nothing else.
IsRowLine(l) ==
  /\ Len(FindAll(l)) = 1
  /\ Cardinality({i \in 1..Len(l) : l[i] = PIPE}) = 6
  /\ l # <<>> /\ l[1] = PIPE /\ l[Len(l)] = PIPE

RECURSIVE RowLines(_)
RowLines(ls) ==
  IF ls = <<>> THEN <<>>
  ELSE (IF IsRowLine(Head(ls)) THEN <<Head(ls)>> ELSE <<>>) \o RowLines(Tail(ls))

\* The rows a line-by-line extraction gives: one per row line, from that
\* line's own fields, the first two row lines dropped.
LineRows(table_content) ==
  LET ls == RowLines(SplitLines(table_content))
      kept == SubSeq(ls, 3, Len(ls))
  IN [i \in 1..Len(kept) |-> [j \in 1..5 |-> strip(FindAll(kept[i])[1][j])]]

\* C9 as stated (for a submission with a non-empty identifier): the rows
\* generate_leaderboard extracts from the table region are those of the row
\* lines, line by line; a line that is not a row line changes nothing about
\* them.
C9_ExtractionIsLineByLine ==
  (last.outcome \in {"ok", "ValueError"} /\ last.user # 0) =>
    ExtractRows(TableContent(last.content)) = LineRows(TableContent(last.content))

\* Both concurrent invocations have ended.
AllDone == \A p \in Procs : pc[p] = "done"
\* Both read the file before either wrote it.
Racing == Len(log) = 4 /\ log[1][1] = "read" /\ log[2][1] = "read"
\* One ended before the other read the file.
OneAfterTheOther == Len(log) = 4 /\ log[2][1] = "write"
HasRowOf(content, u) ==
  \E i \in 1..Len(ReadTable(content)) : ReadTable(content)[i].User = <<UserTok(u)>>

\* C10: two invocations on one file both succeed.  When both read before
\* either wrote, the file ends as the later writer's update of the content
\* first read, and an earlier writer who had no row there has none in the end.
\* When one ran after the other, each participant has a row with at least the
\* score submitted (as the markdown writer renders it).
C10_LastWriterWins ==
  AllDone =>
    /\ \A p \in Procs : job[p].outcome = "ok"
    /\ Racing =>
         LET late == log[4][2]
             early == log[3][2]
         IN /\ job[late].content = job[early].content
            /\ doc \in {r.doc : r \in generate_leaderboard(job[late].content,
                          job[late].prompt, job[late].acc, job[late].user)}
            /\ (job[early].user # job[late].user
                  /\ ~HasRowOf(job[early].content, job[early].user))
                 => ~HasRowOf(doc, job[early].user)
    /\ OneAfterTheOther =>
         \A p \in Procs :
           \E i \in 1..Len(ReadTable(doc)) :
             /\ ReadTable(doc)[i].User = <<UserTok(job[p].user)>>
             /\ ReadTable(doc)[i].Acc >= FmtG(job[p].acc)

\* A lost update: both read first, both wrote, and the earlier writer's
\* participant is not in the final table.
C10_Witness ==
  /\ AllDone
  /\ Racing
  /\ job[log[3][2]].user # job[log[4][2]].user
  /\ job[log[3][2]].outcome = "ok"
  /\ ~HasRowOf(doc, job[log[3][2]].user)
  /\ HasRowOf(doc, job[log[4][2]].user)

====
